---- MODULE Spec2Model ----
(***************************************************************************)
(* Model of scripts/convert-to-retry.py: the per-file converter            *)
(* convert_file and the batch driver main, over a small file system.       *)
(* File contents are character strings; the regular expressions, the       *)
(* replacement template, the text-mode newline translation and the glob    *)
(* are computed character by character as Python computes them.            *)
(***************************************************************************)
EXTENDS Integers, Sequences, FiniteSets, TLC

VARIABLES
    fs,               \* the disk: path -> bytes of the file
    dirExists,        \* whether services/supabase exists
    linesep,          \* os.linesep of the platform the script runs on
    pc,               \* position of main: start, loop, done, exited, crashed
    ts_files,         \* main's ts_files list
    idx,              \* position of the for loop in ts_files
    converted_count,  \* main's converted_count
    stdout,           \* the lines printed by the current run
    exitStatus,       \* process exit status of the current run (-1: running)
    calls,            \* history: one record per convert_file call of the run
    reads,            \* history: paths opened for reading in the run
    writes,           \* history: paths opened for writing in the run
    fs0,              \* history: the disk when the current run started
    run,              \* number of the current run
    prevEnd           \* history: how the previous run ended ("" if none)

vars == <<fs, dirExists, linesep, pc, ts_files, idx, converted_count, stdout,
          exitStatus, calls, reads, writes, fs0, run, prevEnd>>

(***************************************************************************)
(* Bounds of the model.                                                    *)
(***************************************************************************)
MaxChunks == 2
MaxRuns == 2

(***************************************************************************)
(* The literals of the script.                                             *)
(***************************************************************************)
marker == "withRetry"
import_pattern == "(import { supabase } from '@/lib/supabase/client';)"
\* the added import binds another name than the marker
replacement_other_name == "\\1\\nimport { retry } from '@/lib/supabase/retry';"
replacement == "\\1\\nimport { withRetry } from '@/lib/supabase/retry';"
\* the dot left unescaped
promise_race_pattern_unescaped == "Promise.race"
promise_race_pattern == "Promise\\.race"
services_dir == "services/supabase"
\* a pattern that also takes .tsx
glob_pattern_prefix == "*.ts*"
glob_pattern == "*.ts"

(***************************************************************************)
(* Strings.                                                                *)
(***************************************************************************)
CharAt(s, i) == SubSeq(s, i, i)

StartsAt(s, i, pat) ==
    /\ i + Len(pat) - 1 <= Len(s)
    /\ SubSeq(s, i, i + Len(pat) - 1) = pat

\* Python's `pat in s`
Contains(s, pat) == \E i \in 1..(Len(s) + 1) : StartsAt(s, i, pat)

\* the concatenation of pieces[lo], ..., pieces[hi] (strings)
RECURSIVE JoinStr(_, _, _)
JoinStr(pieces, lo, hi) ==
    IF lo > hi THEN ""
    ELSE IF lo = hi THEN pieces[lo]
    ELSE LET mid == (lo + hi) \div 2
         IN  JoinStr(pieces, lo, mid) \o JoinStr(pieces, mid + 1, hi)

\* the concatenation of pieces[lo], ..., pieces[hi] (sequences)
RECURSIVE JoinSeq(_, _, _)
JoinSeq(pieces, lo, hi) ==
    IF lo > hi THEN <<>>
    ELSE IF lo = hi THEN pieces[lo]
    ELSE LET mid == (lo + hi) \div 2
         IN  JoinSeq(pieces, lo, mid) \o JoinSeq(pieces, mid + 1, hi)

Min(S) == CHOOSE x \in S : \A y \in S : x <= y

\* whether the character at j is taken by a backslash right before it
Escaped(src, j) ==
    LET others == {m \in 1..(j - 1) : CharAt(src, m) # "\\"}
        last == IF others = {} THEN 0 ELSE CHOOSE m \in others : \A o \in others : o <= m
    IN  (j - 1 - last) % 2 = 1

(***************************************************************************)
(* Text-mode file I/O: open(..., 'r') and open(..., 'w') with the default  *)
(* newline=None translate line endings.                                    *)
(***************************************************************************)
\* f.read() of a file opened in text mode: "\r\n" and "\r" are read as "\n"
Decode(bytes) ==
    JoinStr([i \in 1..Len(bytes) |->
               IF CharAt(bytes, i) = "\r" THEN "\n"
               ELSE IF CharAt(bytes, i) = "\n" /\ i > 1 /\ CharAt(bytes, i - 1) = "\r"
               THEN ""
               ELSE CharAt(bytes, i)],
            1, Len(bytes))

\* f.write(text) to a file opened in text mode: "\n" is written as os.linesep
Encode(text, sep) ==
    JoinStr([i \in 1..Len(text) |->
               IF CharAt(text, i) = "\n" THEN sep ELSE CharAt(text, i)],
            1, Len(text))

(***************************************************************************)
(* The subset of Python's re used by the script: literal characters,       *)
(* backslash-escaped characters, '.', and one capturing group.             *)
(***************************************************************************)
Atom(k, c) == [kind |-> k, ch |-> c]

\* the atoms of a pattern, in order
Parse(src) ==
    JoinSeq([i \in 1..Len(src) |->
               LET c == CharAt(src, i) IN
               IF Escaped(src, i) THEN <<Atom("lit", c)>>
               ELSE IF c = "\\" THEN <<>>
               ELSE IF c = "(" THEN <<Atom("open", "")>>
               ELSE IF c = ")" THEN <<Atom("close", "")>>
               ELSE IF c = "." THEN <<Atom("any", "")>>
               ELSE <<Atom("lit", c)>>],
            1, Len(src))

IsCharAtom(a) == a.kind \in {"lit", "any"}

\* re.compile(src): the character atoms and the span of group 1 among them
Compile(src) ==
    LET atoms == Parse(src)
        open == IF \E k \in 1..Len(atoms) : atoms[k].kind = "open"
                THEN CHOOSE k \in 1..Len(atoms) : atoms[k].kind = "open"
                ELSE 0
        close == IF \E k \in 1..Len(atoms) : atoms[k].kind = "close"
                 THEN CHOOSE k \in 1..Len(atoms) : atoms[k].kind = "close"
                 ELSE 0
    IN  [chars |-> SelectSeq(atoms, IsCharAtom),
         gfrom |-> Len(SelectSeq(SubSeq(atoms, 1, open), IsCharAtom)) + 1,
         gto   |-> Len(SelectSeq(SubSeq(atoms, 1, close), IsCharAtom))]

\* '.' matches any character but a newline
AtomMatches(a, c) ==
    IF a.kind = "any" THEN c # "\n" ELSE c = a.ch

MatchAt(re, s, i) ==
    /\ Len(re.chars) > 0
    /\ i + Len(re.chars) - 1 <= Len(s)
    /\ \A k \in 1..Len(re.chars) : AtomMatches(re.chars[k], CharAt(s, i + k - 1))

\* the parts of a replacement template of re.sub: \1 is group 1, \n a
\* newline, anything else itself
ParseTemplate(tmpl) ==
    JoinSeq([j \in 1..Len(tmpl) |->
               LET c == CharAt(tmpl, j) IN
               IF Escaped(tmpl, j)
               THEN (IF c = "1" THEN <<Atom("group", "")>>
                     ELSE IF c = "n" THEN <<Atom("lit", "\n")>>
                     ELSE <<Atom("lit", c)>>)
               ELSE IF c = "\\" THEN <<>>
               ELSE <<Atom("lit", c)>>],
            1, Len(tmpl))

\* a parsed template with group 1 filled in
Expand(parts, g1) ==
    JoinStr([j \in 1..Len(parts) |->
               IF parts[j].kind = "group" THEN g1 ELSE parts[j].ch],
            1, Len(parts))

\* the scan of re.sub from position i: the text up to the leftmost match,
\* the expanded template, and on from the end of that match
RECURSIVE SubFrom(_, _, _, _)
SubFrom(re, parts, s, i) ==
    LET M == {k \in i..Len(s) : MatchAt(re, s, k)} IN
    IF M = {} THEN SubSeq(s, i, Len(s))
    ELSE LET k == Min(M)
         IN  SubSeq(s, i, k - 1)
             \o Expand(parts, SubSeq(s, k + re.gfrom - 1, k + re.gto - 1))
             \o SubFrom(re, parts, s, k + Len(re.chars))

\* re.sub(pattern, repl, s): every non-overlapping match, left to right
\* (the pattern compiled, the template parsed)
ReSub(re, parts, s) == SubFrom(re, parts, s, 1)

RECURSIVE FindAllFrom(_, _, _)
FindAllFrom(re, s, i) ==
    LET M == {k \in i..Len(s) : MatchAt(re, s, k)} IN
    IF M = {} THEN <<>>
    ELSE LET k == Min(M)
         IN  <<SubSeq(s, k, k + Len(re.chars) - 1)>>
             \o FindAllFrom(re, s, k + Len(re.chars))

\* re.findall(pattern, s): the non-overlapping matches, left to right
\* (the pattern compiled)
ReFindAll(re, s) == FindAllFrom(re, s, 1)

(***************************************************************************)
(* convert_file, between the read and the write.                           *)
(***************************************************************************)
import_re == Compile(import_pattern)
replacement_parts == ParseTemplate(replacement)
promise_race_re == Compile(promise_race_pattern)

\* the import is added whether or not the marker is there
NeedsImportAlways(content) == TRUE

NeedsImport(content) == ~Contains(content, marker)

AddImport(content) == ReSub(import_re, replacement_parts, content)

CountPromiseRace(content) == Len(ReFindAll(promise_race_re, content))

\* the file is written back whether or not it changed
ShouldWriteAlways(content, original_content) == TRUE

ShouldWrite(content, original_content) == content # original_content

\* the text convert_file ends with, and what it printed on the way
Convert(original_content) ==
    LET added == NeedsImport(original_content)
        content == IF added THEN AddImport(original_content) ELSE original_content
    IN  [content |-> content,
         added |-> added,
         promise_race_count |-> CountPromiseRace(content),
         changed |-> ShouldWrite(content, original_content)]

(***************************************************************************)
(* Paths and Path.glob.                                                    *)
(***************************************************************************)
LastSlash(path) ==
    LET at == {i \in 1..Len(path) : CharAt(path, i) = "/"}
    IN  IF at = {} THEN 0 ELSE CHOOSE i \in at : \A j \in at : j <= i

Parent(path) == SubSeq(path, 1, LastSlash(path) - 1)

Name(path) == SubSeq(path, LastSlash(path) + 1, Len(path))

\* fnmatch of a name against a pattern of literals and '*'
RECURSIVE FnMatch(_, _, _, _)
FnMatch(name, i, pat, j) ==
    IF j > Len(pat) THEN i > Len(name)
    ELSE IF CharAt(pat, j) = "*"
    THEN \E k \in i..(Len(name) + 1) : FnMatch(name, k, pat, j + 1)
    ELSE /\ i <= Len(name)
         /\ CharAt(name, i) = CharAt(pat, j)
         /\ FnMatch(name, i + 1, pat, j + 1)

\* rglob: the entries anywhere below the directory whose name matches
GlobRecursive(disk, dir, pat) ==
    {p \in DOMAIN disk : StartsAt(p, 1, dir \o "/") /\ FnMatch(Name(p), 1, pat, 1)}

\* services_dir.glob('*.ts'): the entries directly in the directory whose
\* name matches
Glob(disk, dir, pat) ==
    {p \in DOMAIN disk : Parent(p) = dir /\ FnMatch(Name(p), 1, pat, 1)}

\* the orders in which the directory scan can yield a set of paths
Orders(S) ==
    {o \in [1..Cardinality(S) -> S] : \A i, j \in DOMAIN o : o[i] = o[j] => i = j}

(***************************************************************************)
(* The file systems the script is run on.                                  *)
(***************************************************************************)
supabase_import == "import { supabase } from '@/lib/supabase/client';"
retry_import == "import { withRetry } from '@/lib/supabase/retry';"

Chunks == {supabase_import, marker, "Promise.race", "Promise_race", "\r\n"}

WorldsTexts == {supabase_import \o "\n", "// withRetry\n", "Promise.race\n"}

RECURSIVE Texts(_)
Texts(n) ==
    IF n = 0 THEN {""}
    ELSE LET T == Texts(n - 1) IN T \cup {t \o c : t \in T, c \in Chunks}

StoriesTs == "services/supabase/stories.ts"
WorldsTs == "services/supabase/worlds.ts"
ClientTsx == "services/supabase/client.tsx"
NestedTs == "services/supabase/auth/users.ts"
OutsideTs == "services/api.ts"

Unconverted == supabase_import \o "\n" \o "Promise.race"

OtherFiles(exists) ==
    IF exists THEN {ClientTsx, NestedTs, OutsideTs} ELSE {OutsideTs}

FileSystems(exists) ==
    IF ~exists THEN {[p \in OtherFiles(exists) |-> Unconverted]}
    ELSE UNION {
           {[p \in S \cup OtherFiles(exists) |->
                IF p = StoriesTs THEN a ELSE IF p = WorldsTs THEN b ELSE Unconverted]
              : a \in (IF StoriesTs \in S THEN Texts(MaxChunks) ELSE {""}),
                b \in (IF WorldsTs \in S THEN WorldsTexts ELSE {""})}
           : S \in SUBSET {StoriesTs, WorldsTs}}

(***************************************************************************)
(* The process.                                                            *)
(***************************************************************************)
Line(msg, path, n) == [msg |-> msg, path |-> path, n |-> n]

\* what one convert_file call prints
ConvertOutput(path, r) ==
    <<Line("Converting", path, 0)>>
    \o (IF r.added THEN <<Line("Added withRetry import", "", 0)>> ELSE <<>>)
    \o (IF r.promise_race_count > 0
        THEN <<Line("Found Promise.race patterns", "", r.promise_race_count),
               Line("Manual conversion recommended", "", 0)>>
        ELSE <<>>)

Init ==
    /\ dirExists \in BOOLEAN
    /\ fs \in FileSystems(dirExists)
    /\ linesep \in {"\n", "\r\n"}
    /\ pc = "start"
    /\ ts_files = <<>>
    /\ idx = 1
    /\ converted_count = 0
    /\ stdout = <<>>
    /\ exitStatus = -1
    /\ calls = <<>>
    /\ reads = <<>>
    /\ writes = <<>>
    /\ fs0 = fs
    /\ run = 1
    /\ prevEnd = ""

\* main: the directory is missing
MainDirMissing ==
    /\ pc = "start"
    /\ ~dirExists
    /\ stdout' = Append(stdout, Line("Error: not found", services_dir, 0))
    /\ exitStatus' = 1
    /\ pc' = "exited"
    /\ UNCHANGED <<fs, dirExists, linesep, ts_files, idx, converted_count,
                   calls, reads, writes, fs0, run, prevEnd>>

\* main: list the directory and start the loop
MainList ==
    /\ \E order \in Orders(Glob(fs, services_dir, glob_pattern)) :
          /\ ts_files' = order
          /\ stdout' = Append(stdout, Line("Found service files", "", Len(order)))
    /\ converted_count' = 0
    /\ idx' = 1
    /\ pc' = "loop"
    /\ UNCHANGED <<fs, dirExists, linesep, exitStatus, calls, reads, writes,
                   fs0, run, prevEnd>>

\* the existence check left out
MainGlobUnchecked ==
    /\ pc = "start"
    /\ MainList

\* main: the directory exists; list it and start the loop
MainGlob ==
    /\ pc = "start"
    /\ dirExists
    /\ MainList

\* one iteration of main's loop: a convert_file call that returns
ConvertFile ==
    /\ pc = "loop"
    /\ idx <= Len(ts_files)
    /\ LET file_path == ts_files[idx]
           original_content == Decode(fs[file_path])
           r == Convert(original_content)
       IN  /\ stdout' = stdout \o ConvertOutput(file_path, r)
           /\ reads' = Append(reads, file_path)
           /\ writes' = IF r.changed THEN Append(writes, file_path) ELSE writes
           /\ fs' = IF r.changed
                    THEN [fs EXCEPT ![file_path] = Encode(r.content, linesep)]
                    ELSE fs
           /\ converted_count' = IF r.changed THEN converted_count + 1
                                 ELSE converted_count
           /\ calls' = Append(calls, [path |-> file_path,
                                      before |-> fs[file_path],
                                      read |-> original_content,
                                      content |-> r.content,
                                      added |-> r.added,
                                      promise_race_count |-> r.promise_race_count,
                                      wrote |-> r.changed,
                                      ret |-> r.changed])
    /\ idx' = idx + 1
    /\ UNCHANGED <<dirExists, linesep, pc, ts_files, exitStatus, fs0, run, prevEnd>>

\* the fault caught and the loop continued
ReadFaultCaught ==
    /\ pc = "loop"
    /\ idx <= Len(ts_files)
    /\ stdout' = Append(stdout, Line("Converting", ts_files[idx], 0))
    /\ reads' = Append(reads, ts_files[idx])
    /\ idx' = idx + 1
    /\ UNCHANGED <<fs, dirExists, linesep, pc, ts_files, converted_count,
                   exitStatus, calls, writes, fs0, run, prevEnd>>

\* one iteration of main's loop: open or read raises (permissions, bytes
\* that are not UTF-8); nothing catches it
ReadFault ==
    /\ pc = "loop"
    /\ idx <= Len(ts_files)
    /\ stdout' = Append(stdout, Line("Converting", ts_files[idx], 0))
    /\ reads' = Append(reads, ts_files[idx])
    /\ pc' = "crashed"
    /\ exitStatus' = 1
    /\ UNCHANGED <<fs, dirExists, linesep, ts_files, idx, converted_count,
                   calls, writes, fs0, run, prevEnd>>

\* one iteration of main's loop: the write raises, either at open (the
\* file is left as it was) or after open truncated the file
WriteFault ==
    /\ pc = "loop"
    /\ idx <= Len(ts_files)
    /\ LET file_path == ts_files[idx]
           r == Convert(Decode(fs[file_path]))
       IN  /\ r.changed
           /\ stdout' = stdout \o ConvertOutput(file_path, r)
           /\ reads' = Append(reads, file_path)
           /\ writes' = Append(writes, file_path)
           /\ \E truncated \in BOOLEAN :
                 fs' = IF truncated THEN [fs EXCEPT ![file_path] = ""] ELSE fs
    /\ pc' = "crashed"
    /\ exitStatus' = 1
    /\ UNCHANGED <<dirExists, linesep, ts_files, idx, converted_count, calls,
                   fs0, run, prevEnd>>

\* main after the loop: the summary
MainSummary ==
    /\ pc = "loop"
    /\ idx > Len(ts_files)
    /\ stdout' = stdout \o <<Line("Updated files", "", converted_count),
                             Line("Next: Manually convert", "", 0),
                             Line("See stories.ts for examples", "", 0)>>
    /\ pc' = "done"
    /\ exitStatus' = 0
    /\ UNCHANGED <<fs, dirExists, linesep, ts_files, idx, converted_count,
                   calls, reads, writes, fs0, run, prevEnd>>

\* the script is started again on the disk the last run left
Rerun ==
    /\ pc = "done"
    /\ run < MaxRuns
    /\ run' = run + 1
    /\ prevEnd' = pc
    /\ fs0' = fs
    /\ pc' = "start"
    /\ ts_files' = <<>>
    /\ idx' = 1
    /\ converted_count' = 0
    /\ stdout' = <<>>
    /\ exitStatus' = -1
    /\ calls' = <<>>
    /\ reads' = <<>>
    /\ writes' = <<>>
    /\ UNCHANGED <<fs, dirExists, linesep>>

Next ==
    \/ MainDirMissing
    \/ MainGlob
    \/ ConvertFile
    \/ ReadFault
    \/ WriteFault
    \/ MainSummary
    \/ Rerun

Spec == Init /\ [][Next]_vars

(***************************************************************************)
(* Vocabulary of the properties.                                           *)
(***************************************************************************)
Range(seq) == {seq[k] : k \in 1..Len(seq)}

EndsWith(s, suffix) ==
    /\ Len(s) >= Len(suffix)
    /\ SubSeq(s, Len(s) - Len(suffix) + 1, Len(s)) = suffix

\* the files with the .ts extension directly under the target directory
DirectTs(disk) ==
    {p \in DOMAIN disk :
        /\ StartsAt(p, 1, services_dir \o "/")
        /\ EndsWith(p, ".ts")
        /\ \A i \in (Len(services_dir) + 2)..Len(p) : CharAt(p, i) # "/"}

\* the number of non-overlapping literal occurrences of pat in s from i on
RECURSIVE CountLiteral(_, _, _)
CountLiteral(s, pat, i) ==
    LET at == {k \in i..Len(s) : StartsAt(s, k, pat)} IN
    IF at = {} THEN 0 ELSE 1 + CountLiteral(s, pat, Min(at) + Len(pat))

\* after is before with one line break and the retry import put right
\* after an occurrence of the supabase import, and nothing else changed
OneLineInserted(before, after) ==
    \E i \in 1..Len(before), eol \in {"\n", "\r\n"} :
        /\ StartsAt(before, i, supabase_import)
        /\ after = SubSeq(before, 1, i + Len(supabase_import) - 1)
                     \o eol \o retry_import
                     \o SubSeq(before, i + Len(supabase_import), Len(before))

Changed == {p \in DOMAIN fs : fs[p] # fs0[p]}

SummaryPrinted == \E k \in 1..Len(stdout) : stdout[k].msg = "Updated files"

\* C1: a call on a file that contains the marker writes nothing, returns
\* False and leaves the file as it was
C1_MarkedFileUntouched ==
    \A k \in 1..Len(calls) :
        Contains(calls[k].before, marker) =>
            /\ ~calls[k].wrote
            /\ ~calls[k].ret
            /\ calls[k].path \notin Range(writes)
            /\ fs[calls[k].path] = calls[k].before

C1_Witness ==
    \E k \in 1..Len(calls) :
        /\ Contains(calls[k].before, marker)
        /\ Contains(calls[k].before, supabase_import)

\* C2: a call on a file without the marker and with the supabase import
\* line returns True and leaves the file as it was but for exactly one new
\* line, the retry import, right after that import line
C2_ExactlyOneLineInserted ==
    \A k \in 1..Len(calls) :
        (~Contains(calls[k].before, marker)
           /\ Contains(calls[k].before, supabase_import)) =>
            /\ calls[k].ret
            /\ calls[k].wrote
            /\ OneLineInserted(calls[k].before, fs[calls[k].path])

\* C3: a call writes exactly when the processed text differs from the text
\* read and returns True exactly then; at the end of a run the reported
\* count is the number of files whose content on disk changed, and these
\* are the files written
C3_WriteIffChanged ==
    /\ \A k \in 1..Len(calls) :
          /\ calls[k].wrote <=> (calls[k].content # calls[k].read)
          /\ calls[k].ret <=> calls[k].wrote
          /\ calls[k].wrote <=> (calls[k].path \in Range(writes))
    /\ pc = "done" =>
          /\ converted_count = Cardinality(Changed)
          /\ Range(writes) = Changed
          /\ stdout[Len(stdout) - 2] = Line("Updated files", "", Cardinality(Changed))

C3_Witness ==
    /\ pc = "done"
    /\ Len(calls) = 2
    /\ calls[1].wrote
    /\ ~calls[2].wrote

\* C4: the count of a call is the number of non-overlapping literal
\* occurrences of 'Promise.race' in the file as it was, whether or not the
\* import was inserted, and every occurrence is still in the text the call
\* ends with and in the file after the call
C4_CountIsLiteralCount ==
    \A k \in 1..Len(calls) :
        LET n == CountLiteral(calls[k].before, "Promise.race", 1) IN
        /\ calls[k].promise_race_count = n
        /\ CountLiteral(calls[k].content, "Promise.race", 1) = n
        /\ CountLiteral(fs[calls[k].path], "Promise.race", 1) = n

C4_Witness ==
    \E k \in 1..Len(calls) :
        /\ calls[k].wrote
        /\ calls[k].promise_race_count = 1

\* C5: with the target directory missing the run prints the error naming
\* the path and exits with status 1, reads and writes nothing and prints
\* no summary; with the directory there, only a file fault gives status 1
C5_MissingDirectoryExits1 ==
    /\ (~dirExists /\ pc # "start") =>
          /\ pc = "exited"
          /\ exitStatus = 1
          /\ stdout = <<Line("Error: not found", "services/supabase", 0)>>
          /\ reads = <<>>
          /\ writes = <<>>
          /\ calls = <<>>
          /\ fs = fs0
          /\ ~SummaryPrinted
    /\ (dirExists /\ pc # "crashed") => exitStatus # 1

C5_Witness == ~dirExists /\ pc = "exited"

\* C6: with the directory there and no *.ts file in it, the run calls
\* convert_file never, reports zero found and zero updated, writes nothing
\* and ends normally
C6_EmptyDirectory ==
    (dirExists /\ DirectTs(fs0) = {} /\ pc # "start") =>
        /\ pc \in {"loop", "done"}
        /\ pc = "loop" => idx > Len(ts_files)
        /\ calls = <<>>
        /\ reads = <<>>
        /\ writes = <<>>
        /\ fs = fs0
        /\ stdout[1] = Line("Found service files", "", 0)
        /\ pc = "done" =>
              /\ exitStatus = 0
              /\ stdout[2] = Line("Updated files", "", 0)

C6_Witness == dirExists /\ DirectTs(fs0) = {} /\ pc = "done"

\* C7: a run reads and writes only .ts files directly under the target
\* directory, each passed to convert_file once; every other file is never
\* read or written and keeps its content
C7_OnlyDirectTsFiles ==
    /\ Range(reads) \subseteq DirectTs(fs0)
    /\ Range(writes) \subseteq DirectTs(fs0)
    /\ \A i, j \in 1..Len(reads) : reads[i] = reads[j] => i = j
    /\ \A p \in DOMAIN fs : p \notin DirectTs(fs0) => fs[p] = fs0[p]
    /\ pc = "done" =>
          /\ Range(reads) = DirectTs(fs0)
          /\ Len(calls) = Cardinality(DirectTs(fs0))
          /\ \A p \in DirectTs(fs0) :
                Cardinality({k \in 1..Len(calls) : calls[k].path = p}) = 1

C7_Witness ==
    /\ pc = "done"
    /\ Len(calls) = 2
    /\ ClientTsx \in DOMAIN fs
    /\ NestedTs \in DOMAIN fs

\* C8: files are processed one after another; a read or write fault ends
\* the run there: no later file is read or written, no summary is printed,
\* and the files rewritten before it keep their rewritten content
C8_FaultEndsRun ==
    /\ reads = SubSeq(ts_files, 1, Len(reads))
    /\ Len(reads) > Len(calls) <=> pc = "crashed"
    /\ pc = "crashed" =>
          /\ Len(reads) = Len(calls) + 1
          /\ exitStatus = 1
          /\ ~SummaryPrinted
          /\ \A k \in (Len(reads) + 1)..Len(ts_files) :
                /\ fs[ts_files[k]] = fs0[ts_files[k]]
                /\ ts_files[k] \notin Range(writes)
          /\ \A k \in 1..Len(calls) :
                calls[k].wrote =>
                    /\ fs[calls[k].path] = Encode(calls[k].content, linesep)
                    /\ fs[calls[k].path] # fs0[calls[k].path]

C8_Witness ==
    /\ pc = "crashed"
    /\ Len(ts_files) = 2
    /\ Len(calls) = 1
    /\ calls[1].wrote

\* C9: a run right after a completed run over the same files writes
\* nothing: every call returns False, zero files are reported updated and
\* every file stays as the first run left it
C9_SecondRunChangesNothing ==
    (run >= 2 /\ prevEnd = "done") =>
        /\ \A k \in 1..Len(calls) : ~calls[k].ret /\ ~calls[k].wrote
        /\ writes = <<>>
        /\ converted_count = 0
        /\ fs = fs0
        /\ pc = "done" => stdout[Len(stdout) - 2] = Line("Updated files", "", 0)

C9_Witness ==
    /\ run = 2
    /\ pc = "done"
    /\ \E p \in DOMAIN fs : Contains(fs[p], retry_import) /\ p \in DirectTs(fs)
    /\ Len(calls) = 2

\* C10: a call prints 'Added withRetry import' only when it inserted the
\* import, that is only when it also rewrites the file and returns True
C10_AddedOnlyWhenInserted ==
    \A k \in 1..Len(calls) :
        calls[k].added => (calls[k].wrote /\ calls[k].ret)

====
